---- MODULE Spec2Model ----
(***************************************************************************)
(* A model of fsindex_core (crates/core/src/indexer.rs): the SQLite-backed *)
(* file index with its indexing walk, upsert, dynamic search query and     *)
(* duplicate grouping.                                                     *)
(***************************************************************************)
EXTENDS Integers, Sequences, FiniteSets, TLC

(***************************************************************************)
(* Bounds of the model.                                                    *)
(***************************************************************************)
MaxOps   == 3      \* clock ticks, file system changes and index_dir runs in a behaviour
MaxNanos == 1      \* the sub-second part of a DateTime is in 0..MaxNanos

(***************************************************************************)
(* Option<T>: None is the empty sequence, Some(v) the one-element one.     *)
(***************************************************************************)
None == <<>>
Some(v) == <<v>>
IsSome(o) == Len(o) = 1
Unwrap(o) == o[1]

(***************************************************************************)
(* Result<T>: Ok(v) or Err(e).                                             *)
(***************************************************************************)
Ok(v) == [ok |-> TRUE, val |-> v, err |-> ""]
Err(e) == [ok |-> FALSE, val |-> 0, err |-> e]

(***************************************************************************)
(* Text.  A string is a sequence of one-character strings; Code is the     *)
(* byte value of a character, which SQLite's BINARY collation compares.    *)
(***************************************************************************)
Chars == {".", "%", "A", "B", "T", "_", "a", "b", "t"}

Code(c) ==
    CASE c = "%" -> 37 [] c = "." -> 46 [] c = "A" -> 65 [] c = "B" -> 66
      [] c = "T" -> 84 [] c = "_" -> 95 [] c = "a" -> 97 [] c = "b" -> 98
      [] c = "t" -> 116

lower_char(c) ==
    CASE c = "A" -> "a" [] c = "B" -> "b" [] c = "T" -> "t" [] OTHER -> c

to_ascii_lowercase(s) == [i \in 1..Len(s) |-> lower_char(s[i])]

\* memcmp order of two strings (s < t)
RECURSIVE StrLess(_, _)
StrLess(s, t) ==
    IF t = <<>> THEN FALSE
    ELSE IF s = <<>> THEN TRUE
    ELSE IF Code(Head(s)) # Code(Head(t)) THEN Code(Head(s)) < Code(Head(t))
    ELSE StrLess(Tail(s), Tail(t))

(***************************************************************************)
(* The file system the walk runs over.  A path is its sequence of          *)
(* components.  The tree is  d/{a_b.t, aAb.T, s/{B}}.                      *)
(***************************************************************************)
DirD == << <<"d">> >>
DirS == << <<"d">>, <<"s">> >>
F1 == << <<"d">>, <<"a", "_", "b", ".", "t">> >>
F2 == << <<"d">>, <<"a", "A", "b", ".", "T">> >>
F3 == << <<"d">>, <<"s">>, <<"B">> >>

Files == {F1, F2, F3}
Roots == {DirD, DirS}

\* File contents: the byte length and the BLAKE3 digest of each.  The digest
\* is not injective: c1 and c3 collide although their lengths differ.
Contents == {"c1", "c2", "c3"}
LenOf(c) == CASE c = "c1" -> 10 [] c = "c2" -> 10 [] c = "c3" -> 20
DigestOf(c) == CASE c = "c1" -> "h1" [] c = "c2" -> "h2" [] c = "c3" -> "h1"

\* what the environment writes into a file after the index was created
Written == {"c2"}

SecsPerDay == 86400
ClockStart == 2 * SecsPerDay

DateTime(s, n) == [secs |-> s, nanos |-> n]

VARIABLES
    fs,        \* file path -> [content, mtime, readable]
    listable,  \* whether read_dir of d/s succeeds
    now,       \* the system clock, in whole seconds
    ops,       \* clock ticks, file system changes and runs started so far
    store,     \* the rows of table files
    pc,        \* "idle" or "walking": position of index_dir
    walk,      \* the entries WalkDir yields in the current (or last) run
    pos,       \* index in walk of the next entry
    hashFlag,  \* the hash argument of the current (or last) run
    root,      \* the root argument of the current (or last) run
    count,     \* the local count of index_dir
    result,    \* what the last finished index_dir returned
    out,       \* what the last query call returned, until the next call
    last,      \* history: the record of the latest upsert of the current (or
               \* last) run, and the row its path had in the store before
    prevRun,   \* history: the latest finished index_dir run
    runStart   \* history: the store as the current (or last) run found it

vars == <<fs, listable, now, ops, store, pc, walk, pos, hashFlag, root,
          count, result, out, last, prevRun, runStart>>

(***************************************************************************)
(* Path::file_name and Path::extension.                                    *)
(***************************************************************************)
file_name(path) == path[Len(path)]

\* position of the last '.' of s, 0 when there is none
LastDot(s) ==
    LET dots == {i \in 1..Len(s) : s[i] = "."}
    IN  IF dots = {} THEN 0 ELSE CHOOSE i \in dots : \A j \in dots : j <= i

extension(path) ==
    LET n == file_name(path)
        k == LastDot(n)
    IN  IF k <= 1 THEN None ELSE Some(SubSeq(n, k + 1, Len(n)))

\* every character of the model's alphabet is valid UTF-8
to_str(s) == IF \A i \in 1..Len(s) : s[i] \in Chars THEN Some(s) ELSE None

\* DateTime::timestamp: whole seconds since the epoch
timestamp(dt) == dt.secs

(***************************************************************************)
(* compute_hash: fails when the file cannot be opened for reading.         *)
(***************************************************************************)
compute_hash(path) ==
    IF fs[path].readable THEN Ok(DigestOf(fs[path].content))
    ELSE Err("opening for hashing")

(***************************************************************************)
(* build_record.  metadata() needs no read permission on the file itself;  *)
(* lengths of the model are far below i64::MAX, so the size conversion     *)
(* succeeds, and every file has a modification time.  nanos is the         *)
(* sub-second part of what Utc::now() returns.                             *)
(***************************************************************************)
\* variant of build_record: the content is hashed whatever the flag
build_record_hashes(path, hash, nanos) ==
    LET metadata == fs[path]
        name == to_str(file_name(path))
        ext0 == extension(path)
        ext == IF IsSome(ext0) /\ IsSome(to_str(Unwrap(ext0)))
               THEN Some(to_ascii_lowercase(Unwrap(ext0))) ELSE None
        h == compute_hash(path)
    IN  IF path \notin Files THEN Err("is not a regular file")
        ELSE IF ~IsSome(name) THEN Err("file name is not valid UTF-8")
        ELSE IF ~h.ok THEN h
        ELSE Ok([path |-> path,
                 name |-> Unwrap(name),
                 ext |-> ext,
                 size |-> LenOf(metadata.content),
                 modified |-> metadata.mtime,
                 added_at |-> DateTime(now, nanos),
                 hash |-> Some(h.val)])

build_record(path, hash, nanos) ==
    LET metadata == fs[path]
        name == to_str(file_name(path))
        ext0 == extension(path)
        ext == IF IsSome(ext0) /\ IsSome(to_str(Unwrap(ext0)))
               THEN Some(to_ascii_lowercase(Unwrap(ext0))) ELSE None
        h == IF hash THEN compute_hash(path) ELSE Ok("")
    IN  IF path \notin Files THEN Err("is not a regular file")
        ELSE IF ~IsSome(name) THEN Err("file name is not valid UTF-8")
        ELSE IF ~h.ok THEN h
        ELSE Ok([path |-> path,
                 name |-> Unwrap(name),
                 ext |-> ext,
                 size |-> LenOf(metadata.content),
                 modified |-> metadata.mtime,
                 added_at |-> DateTime(now, nanos),
                 hash |-> IF hash THEN Some(h.val) ELSE None])

(***************************************************************************)
(* upsert: INSERT ... ON CONFLICT(path) DO UPDATE SET name, ext, size,     *)
(* modified, hash.  Timestamps are bound as whole seconds.                 *)
(***************************************************************************)
\* variant of RowOf: the two timestamps bound in each other's place
RowOf_swapped(rec) ==
    [path |-> rec.path, name |-> rec.name, ext |-> rec.ext, size |-> rec.size,
     modified |-> timestamp(rec.added_at), added_at |-> timestamp(rec.modified),
     hash |-> rec.hash]

RowOf(rec) ==
    [path |-> rec.path, name |-> rec.name, ext |-> rec.ext, size |-> rec.size,
     modified |-> timestamp(rec.modified), added_at |-> timestamp(rec.added_at),
     hash |-> rec.hash]

\* variants of upsert: a plain INSERT into a table without the key; INSERT OR
\* REPLACE, which rewrites the whole row; an update list without the hash
upsert_insert(rows, rec) == rows \cup {RowOf(rec)}
upsert_replace(rows, rec) == {r \in rows : r.path # rec.path} \cup {RowOf(rec)}
upsert_stale_hash(rows, rec) ==
    LET new == RowOf(rec)
    IN  IF \E r \in rows : r.path = new.path
        THEN {IF r.path = new.path
              THEN [r EXCEPT !.name = new.name, !.ext = new.ext,
                             !.size = new.size, !.modified = new.modified]
              ELSE r : r \in rows}
        ELSE rows \cup {new}

\* variant of upsert: hash = COALESCE(excluded.hash, hash), which keeps the
\* stored fingerprint when the new record has none
upsert_keep_hash(rows, rec) ==
    LET new == RowOf(rec)
    IN  IF \E r \in rows : r.path = new.path
        THEN {IF r.path = new.path
              THEN [r EXCEPT !.name = new.name, !.ext = new.ext,
                             !.size = new.size, !.modified = new.modified,
                             !.hash = IF IsSome(new.hash) THEN new.hash ELSE @]
              ELSE r : r \in rows}
        ELSE rows \cup {new}

upsert(rows, rec) ==
    LET new == RowOf(rec)
    IN  IF \E r \in rows : r.path = new.path
        THEN {IF r.path = new.path
              THEN [r EXCEPT !.name = new.name, !.ext = new.ext,
                             !.size = new.size, !.modified = new.modified,
                             !.hash = new.hash]
              ELSE r : r \in rows}
        ELSE rows \cup {new}

(***************************************************************************)
(* WalkDir.  An entry is a path WalkDir yields ("entry") or the listing of *)
(* a directory it descends into ("readdir"), which is where a traversal    *)
(* error shows.                                                            *)
(***************************************************************************)
Ent(p) == [path |-> p, op |-> "entry"]
Rd(p)  == [path |-> p, op |-> "readdir"]

WalkDir(r) ==
    IF r = DirD
    THEN {<<Ent(DirD), Ent(F1), Ent(F2), Ent(DirS), Rd(DirS), Ent(F3)>>}
    ELSE {<<Ent(DirS), Rd(DirS), Ent(F3)>>}

\* entry? of the loop: the listing of d/s fails when it is not listable
EntryResult(e) ==
    IF e.op = "readdir" /\ ~listable THEN Err("traversal") ELSE Ok(0)

is_file(e) == e.op = "entry" /\ e.path \in Files

(***************************************************************************)
(* One iteration of the loop of index_dir over entry e; dbok tells whether *)
(* the store accepts the statement of upsert.                              *)
(***************************************************************************)
\* variant of the iteration: a file whose record cannot be built is skipped
index_dir_body_skip(e, hash, nanos, dbok) ==
    LET rec == build_record(e.path, hash, nanos)
    IN  IF ~EntryResult(e).ok
        THEN [ctl |-> "return", err |-> EntryResult(e).err, store |-> store,
              count |-> count, upserted |-> None]
        ELSE IF ~is_file(e) \/ ~rec.ok
        THEN [ctl |-> "continue", err |-> "", store |-> store,
              count |-> count, upserted |-> None]
        ELSE IF ~dbok
        THEN [ctl |-> "return", err |-> "sqlite", store |-> store,
              count |-> count, upserted |-> None]
        ELSE [ctl |-> "continue", err |-> "", store |-> upsert(store, rec.val),
              count |-> count + 1, upserted |-> Some(rec.val)]

\* variant of the iteration: the run is one transaction, rolled back when
\* the run returns an error
index_dir_body_rollback(e, hash, nanos, dbok) ==
    LET rec == build_record(e.path, hash, nanos)
    IN  IF ~EntryResult(e).ok
        THEN [ctl |-> "return", err |-> EntryResult(e).err, store |-> runStart,
              count |-> count, upserted |-> None]
        ELSE IF ~is_file(e)
        THEN [ctl |-> "continue", err |-> "", store |-> store,
              count |-> count, upserted |-> None]
        ELSE IF ~rec.ok
        THEN [ctl |-> "return", err |-> rec.err, store |-> runStart,
              count |-> count, upserted |-> None]
        ELSE IF ~dbok
        THEN [ctl |-> "return", err |-> "sqlite", store |-> runStart,
              count |-> count, upserted |-> None]
        ELSE [ctl |-> "continue", err |-> "", store |-> upsert(store, rec.val),
              count |-> count + 1, upserted |-> Some(rec.val)]

index_dir_body(e, hash, nanos, dbok) ==
    LET rec == build_record(e.path, hash, nanos)
    IN  IF ~EntryResult(e).ok
        THEN [ctl |-> "return", err |-> EntryResult(e).err, store |-> store,
              count |-> count, upserted |-> None]
        ELSE IF ~is_file(e)
        THEN [ctl |-> "continue", err |-> "", store |-> store,
              count |-> count, upserted |-> None]
        ELSE IF ~rec.ok
        THEN [ctl |-> "return", err |-> rec.err, store |-> store,
              count |-> count, upserted |-> None]
        ELSE IF ~dbok
        THEN [ctl |-> "return", err |-> "sqlite", store |-> store,
              count |-> count, upserted |-> None]
        ELSE [ctl |-> "continue", err |-> "", store |-> upsert(store, rec.val),
              count |-> count + 1, upserted |-> Some(rec.val)]

(***************************************************************************)
(* SQLite's LIKE as the build uses it: no ESCAPE clause, '%' matches any   *)
(* run of characters, '_' any one character, ASCII letters fold case.      *)
(***************************************************************************)
RECURSIVE Like(_, _)
Like(pat, text) ==
    IF pat = <<>> THEN text = <<>>
    ELSE IF Head(pat) = "%"
    THEN \E k \in 0..Len(text) : Like(Tail(pat), SubSeq(text, k + 1, Len(text)))
    ELSE IF text = <<>> THEN FALSE
    ELSE IF Head(pat) = "_" THEN Like(Tail(pat), Tail(text))
    ELSE /\ lower_char(Head(pat)) = lower_char(Head(text))
         /\ Like(Tail(pat), Tail(text))

(***************************************************************************)
(* SearchQuery and the statement search builds from it.  The statement is  *)
(* a sequence of tokens; a token carries the number formatted into it.     *)
(***************************************************************************)
Tok(k) == [kw |-> k, arg |-> None]
TokN(k, n) == [kw |-> k, arg |-> Some(n)]

\* NaiveDate::and_hms_opt(h, m, s).and_utc().timestamp(); a date is its day
\* number since 1970-01-01
and_hms_timestamp(date, h, m, sec) == date * SecsPerDay + h * 3600 + m * 60 + sec

\* variant of search_conds: the to date taken at 00:00:00
search_conds_midnight(q) ==
    (IF IsSome(q.name_like) /\ Unwrap(q.name_like) # <<>>
     THEN << [cond |-> "name LIKE ?", param |-> <<"%">> \o Unwrap(q.name_like) \o <<"%">>] >>
     ELSE <<>>)
    \o (IF IsSome(q.ext) /\ Unwrap(q.ext) # <<>>
        THEN << [cond |-> "ext = ?", param |-> to_ascii_lowercase(Unwrap(q.ext))] >>
        ELSE <<>>)
    \o (IF IsSome(q.min_size)
        THEN << [cond |-> "size >= ?", param |-> Unwrap(q.min_size)] >> ELSE <<>>)
    \o (IF IsSome(q.max_size)
        THEN << [cond |-> "size <= ?", param |-> Unwrap(q.max_size)] >> ELSE <<>>)
    \o (IF IsSome(q.date_from)
        THEN << [cond |-> "modified >= ?",
                 param |-> and_hms_timestamp(Unwrap(q.date_from), 0, 0, 0)] >>
        ELSE <<>>)
    \o (IF IsSome(q.date_to)
        THEN << [cond |-> "modified <= ?",
                 param |-> and_hms_timestamp(Unwrap(q.date_to), 0, 0, 0)] >>
        ELSE <<>>)

\* the predicates and their parameters, in the order search pushes them
search_conds(q) ==
    (IF IsSome(q.name_like) /\ Unwrap(q.name_like) # <<>>
     THEN << [cond |-> "name LIKE ?", param |-> <<"%">> \o Unwrap(q.name_like) \o <<"%">>] >>
     ELSE <<>>)
    \o (IF IsSome(q.ext) /\ Unwrap(q.ext) # <<>>
        THEN << [cond |-> "ext = ?", param |-> to_ascii_lowercase(Unwrap(q.ext))] >>
        ELSE <<>>)
    \o (IF IsSome(q.min_size)
        THEN << [cond |-> "size >= ?", param |-> Unwrap(q.min_size)] >> ELSE <<>>)
    \o (IF IsSome(q.max_size)
        THEN << [cond |-> "size <= ?", param |-> Unwrap(q.max_size)] >> ELSE <<>>)
    \o (IF IsSome(q.date_from)
        THEN << [cond |-> "modified >= ?",
                 param |-> and_hms_timestamp(Unwrap(q.date_from), 0, 0, 0)] >>
        ELSE <<>>)
    \o (IF IsSome(q.date_to)
        THEN << [cond |-> "modified <= ?",
                 param |-> and_hms_timestamp(Unwrap(q.date_to), 23, 59, 59)] >>
        ELSE <<>>)

\* SortKey::default() is Name
sort_column(q) ==
    IF ~IsSome(q.sort_key) THEN "name"
    ELSE CASE Unwrap(q.sort_key) = "Name" -> "name"
           [] Unwrap(q.sort_key) = "Size" -> "size"
           [] Unwrap(q.sort_key) = "Modified" -> "modified"

search_sql(q) ==
    LET conds == search_conds(q)
    IN  << Tok("SELECT path,name,ext,size,modified,added_at,hash FROM files") >>
        \o (IF conds # <<>>
            THEN << Tok(" WHERE ") >>
                 \o [i \in 1..(2 * Len(conds) - 1) |->
                       IF i % 2 = 1 THEN Tok(conds[(i + 1) \div 2].cond) ELSE Tok(" AND ")]
            ELSE <<>>)
        \o << Tok(" ORDER BY "), Tok(sort_column(q)) >>
        \o (IF q.desc THEN << Tok(" DESC") >> ELSE <<>>)
        \o (IF IsSome(q.limit) THEN << TokN(" LIMIT ", Unwrap(q.limit)) >> ELSE <<>>)
        \o (IF IsSome(q.offset) THEN << TokN(" OFFSET ", Unwrap(q.offset)) >> ELSE <<>>)

search_params(q) == [i \in 1..Len(search_conds(q)) |-> search_conds(q)[i].param]

(***************************************************************************)
(* The engine: Connection::prepare and the rows a prepared SELECT yields.  *)
(***************************************************************************)
Kws(sql) == {sql[i].kw : i \in 1..Len(sql)}
ArgOf(sql, k) == (CHOOSE i \in 1..Len(sql) : sql[i].kw = k) 

\* SQLite's grammar has OFFSET only inside a LIMIT clause
prepare(sql) ==
    IF " OFFSET " \in Kws(sql) /\ " LIMIT " \notin Kws(sql)
    THEN Err("near OFFSET: syntax error")
    ELSE Ok(sql)

CondHolds(cond, param, r) ==
    CASE cond = "name LIKE ?"   -> Like(param, r.name)
      [] cond = "ext = ?"       -> IsSome(r.ext) /\ Unwrap(r.ext) = param
      [] cond = "size >= ?"     -> r.size >= param
      [] cond = "size <= ?"     -> r.size <= param
      [] cond = "modified >= ?" -> r.modified >= param
      [] cond = "modified <= ?" -> r.modified <= param

\* the conditions of the statement, in order: they bind params in order
CondsOf(sql) ==
    LET idx == {i \in 1..Len(sql) : sql[i].kw \in
                  {"name LIKE ?", "ext = ?", "size >= ?", "size <= ?",
                   "modified >= ?", "modified <= ?"}}
        nth(k) == CHOOSE i \in idx : Cardinality({j \in idx : j < i}) = k - 1
    IN  [k \in 1..Cardinality(idx) |-> sql[nth(k)].kw]

Selected(sql, params, rows) ==
    {r \in rows : \A k \in 1..Len(CondsOf(sql)) : CondHolds(CondsOf(sql)[k], params[k], r)}

\* a <= b in column col (BINARY collation for text)
ColLeq(col, a, b) ==
    CASE col = "name"     -> ~StrLess(b.name, a.name)
      [] col = "size"     -> a.size <= b.size
      [] col = "modified" -> a.modified <= b.modified
      [] col = "added_at" -> a.added_at <= b.added_at

\* every order ORDER BY col [DESC] may produce: rows that tie come in any order
Orderings(S, col, desc) ==
    {f \in [1..Cardinality(S) -> S] :
        /\ \A i, j \in 1..Cardinality(S) : i # j => f[i] # f[j]
        /\ \A i, j \in 1..Cardinality(S) :
              i < j => IF desc THEN ColLeq(col, f[j], f[i]) ELSE ColLeq(col, f[i], f[j])}

\* LIMIT n OFFSET m: a negative n is no limit, a negative m is 0
Page(seq, limit, offset) ==
    LET m == IF IsSome(offset) /\ Unwrap(offset) > 0 THEN Unwrap(offset) ELSE 0
        n == IF IsSome(limit) /\ Unwrap(limit) >= 0 THEN Unwrap(limit) ELSE Len(seq)
        hi == IF m + n < Len(seq) THEN m + n ELSE Len(seq)
    IN  SubSeq(seq, m + 1, hi)

OrderCol(sql) == sql[(CHOOSE i \in 1..Len(sql) : sql[i].kw = " ORDER BY ") + 1].kw
LimitOf(sql) == IF " LIMIT " \in Kws(sql) THEN sql[ArgOf(sql, " LIMIT ")].arg ELSE None
OffsetOf(sql) == IF " OFFSET " \in Kws(sql) THEN sql[ArgOf(sql, " OFFSET ")].arg ELSE None

\* the orderings of the selected rows the statement may run through
Sorted(sql, params, rows) ==
    Orderings(Selected(sql, params, rows), OrderCol(sql), " DESC" \in Kws(sql))

(***************************************************************************)
(* decode_timestamp and the row mapper of search and recently_added.       *)
(* DateTime::from_timestamp(ts, 0) is None outside the seconds chrono      *)
(* represents (about -8.3 * 10^12 .. 8.2 * 10^12).  TLC's integers are 32  *)
(* bits wide, so the model narrows that range to MinTimestamp ..           *)
(* MaxTimestamp, which still holds every time of the model's clock and     *)
(* files.                                                                  *)
(***************************************************************************)
MinTimestamp == -(4 * SecsPerDay)
MaxTimestamp == 4 * SecsPerDay

decode_timestamp(ts) ==
    IF ts >= MinTimestamp /\ ts <= MaxTimestamp
    THEN Ok(DateTime(ts, 0))
    ELSE Err("timestamp out of range")

map_row(r) ==
    LET m == decode_timestamp(r.modified)
        a == decode_timestamp(r.added_at)
    IN  IF ~m.ok THEN m
        ELSE IF ~a.ok THEN a
        ELSE Ok([path |-> r.path, name |-> r.name, ext |-> r.ext, size |-> r.size,
                 modified |-> m.val, added_at |-> a.val, hash |-> r.hash])

\* rows.filter_map(|r| r.ok()).collect()
RECURSIVE collect_ok(_)
collect_ok(rs) ==
    IF rs = <<>> THEN <<>>
    ELSE IF map_row(Head(rs)).ok THEN <<map_row(Head(rs)).val>> \o collect_ok(Tail(rs))
    ELSE collect_ok(Tail(rs))

(***************************************************************************)
(* search(q), given the ordering the engine ran through.                   *)
(***************************************************************************)
\* variant of search: the rows collected into a Result, the first row that
\* fails to decode being the error returned
search_strict(q, sorted) ==
    LET sql == search_sql(q)
        page == Page(sorted, LimitOf(sql), OffsetOf(sql))
    IN  IF ~prepare(sql).ok THEN Err(prepare(sql).err)
        ELSE IF \E i \in 1..Len(page) : ~map_row(page[i]).ok
        THEN Err("timestamp out of range")
        ELSE Ok(collect_ok(page))

search(q, sorted) ==
    LET sql == search_sql(q)
    IN  IF ~prepare(sql).ok THEN Err(prepare(sql).err)
        ELSE Ok(collect_ok(Page(sorted, LimitOf(sql), OffsetOf(sql))))

(***************************************************************************)
(* recently_added(limit): ORDER BY added_at DESC LIMIT ?.                  *)
(***************************************************************************)
recently_added(limit, sorted) == Ok(collect_ok(Page(sorted, Some(limit), None)))

(***************************************************************************)
(* duplicate_groups(limit).  The first statement groups the hashed rows by *)
(* (hash, size); the second lists, for each group, the paths of the rows   *)
(* WHERE hash = ?, ordered by name.                                        *)
(***************************************************************************)
GroupRows(rows) ==
    {g \in {[hash |-> Unwrap(r.hash), size |-> r.size,
             count |-> Cardinality({x \in rows : x.hash = r.hash /\ x.size = r.size})]
            : r \in {x \in rows : IsSome(x.hash)}} : g.count > 1}

\* the orders ORDER BY c DESC may give the groups
GroupOrderings(rows) ==
    {f \in [1..Cardinality(GroupRows(rows)) -> GroupRows(rows)] :
        /\ \A i, j \in 1..Cardinality(GroupRows(rows)) : i # j => f[i] # f[j]
        /\ \A i, j \in 1..Cardinality(GroupRows(rows)) : i < j => f[i].count >= f[j].count}

\* SELECT path FROM files WHERE hash = ? ORDER BY name
PathRows(rows, h) == {r \in rows : IsSome(r.hash) /\ Unwrap(r.hash) = h}
PathOrderings(rows, h) == Orderings(PathRows(rows, h), "name", FALSE)

\* groups is the order of the first statement's rows, paths[i] the order of
\* the rows the second statement yields for the i-th group
duplicate_groups(limit, groups, paths) ==
    LET top == Page(groups, Some(limit), None)
    IN  Ok([i \in 1..Len(top) |->
              [hash |-> top[i].hash, size |-> top[i].size, count |-> top[i].count,
               paths |-> [k \in 1..Len(paths[i]) |-> paths[i][k].path]]])

(***************************************************************************)
(* The queries and limits the callers pass.                                *)
(***************************************************************************)
DefaultQuery ==
    [name_like |-> None, ext |-> None, min_size |-> None, max_size |-> None,
     date_from |-> None, date_to |-> None, sort_key |-> None, desc |-> FALSE,
     limit |-> None, offset |-> None]

NameFilters == {<<>>, <<"_">>, <<"A">>, <<"%">>, <<"b", ".">>, <<"B">>}

NameQueries ==
    {[DefaultQuery EXCEPT !.name_like = Some(n)] : n \in NameFilters}
    \cup {[DefaultQuery EXCEPT !.name_like = n, !.ext = Some(<<"T">>)] : n \in {None, Some(<<"A">>)}}

RangeQueries ==
    {[DefaultQuery EXCEPT !.min_size = lo, !.max_size = hi, !.date_from = f, !.date_to = t] :
        lo \in {None, Some(10), Some(20)}, hi \in {None, Some(10)},
        f \in {None, Some(1)}, t \in {None, Some(1)}}

PageQueries ==
    {[DefaultQuery EXCEPT !.sort_key = k, !.desc = d, !.limit = l, !.offset = o] :
        k \in {None, Some("Size"), Some("Modified")}, d \in BOOLEAN,
        l \in {None, Some(1), Some(2)}, o \in {None, Some(1)}}

Queries == NameQueries \cup RangeQueries \cup PageQueries

Limits == {1, 10}

NoResult == Err("not run")

\* history records
\* the run that ends repeats the run before it: same root, same flag, no
\* change of the file system since that run started
Repeats ==
    /\ IsSome(prevRun)
    /\ Unwrap(prevRun).res.ok
    /\ Unwrap(prevRun).root = root
    /\ Unwrap(prevRun).hash = hashFlag
    /\ Unwrap(prevRun).fs = fs
    /\ Unwrap(prevRun).listable = listable
\* the run that ends is made again from the beginning after a run over the
\* same root that returned an error
Retries ==
    /\ IsSome(prevRun)
    /\ ~Unwrap(prevRun).res.ok
    /\ Unwrap(prevRun).root = root
RunRecord(res, rows) ==
    [root |-> root, hash |-> hashFlag, res |-> res, store |-> rows, fs |-> fs,
     listable |-> listable, repeats |-> Repeats, retries |-> Retries,
     before |-> runStart]
StoredRow(rows, path) ==
    IF \E r \in rows : r.path = path
    THEN Some(CHOOSE r \in rows : r.path = path)
    ELSE None
NoOut == [op |-> "none"]

Init ==
    /\ fs = (F1 :> [content |-> "c1", mtime |-> DateTime(SecsPerDay - 1, MaxNanos), readable |-> TRUE]
          @@ F2 :> [content |-> "c1", mtime |-> DateTime(SecsPerDay, 0), readable |-> TRUE]
          @@ F3 :> [content |-> "c3", mtime |-> DateTime(2 * SecsPerDay - 1, MaxNanos), readable |-> TRUE])
    /\ listable = TRUE
    /\ now = ClockStart
    /\ ops = 0
    /\ store = {}
    /\ pc = "idle"
    /\ walk = <<>>
    /\ pos = 1
    /\ hashFlag = FALSE
    /\ root = DirD
    /\ count = 0
    /\ result = NoResult
    /\ out = NoOut
    /\ last = None
    /\ prevRun = None
    /\ runStart = {}

(***************************************************************************)
(* The environment: the clock advances; between runs of the (single-       *)
(* threaded, blocking) indexer files are rewritten and permissions change. *)
(***************************************************************************)
Tick ==
    /\ ops < MaxOps
    /\ now' = now + 1
    /\ ops' = ops + 1
    /\ out' = NoOut
    /\ UNCHANGED <<fs, listable, store, pc, walk, pos, hashFlag, root,
                   count, result, last, prevRun, runStart>>

WriteFile(p, c) ==
    /\ ops < MaxOps
    /\ pc = "idle"
    /\ fs' = [fs EXCEPT ![p] = [content |-> c, mtime |-> DateTime(now, MaxNanos),
                                readable |-> @.readable]]
    /\ ops' = ops + 1
    /\ out' = NoOut
    /\ UNCHANGED <<listable, now, store, pc, walk, pos, hashFlag, root, count,
                   result, last, prevRun, runStart>>

ChmodFile(p) ==
    /\ ops < MaxOps
    /\ pc = "idle"
    /\ fs' = [fs EXCEPT ![p].readable = ~@]
    /\ ops' = ops + 1
    /\ out' = NoOut
    /\ UNCHANGED <<listable, now, store, pc, walk, pos, hashFlag, root, count,
                   result, last, prevRun, runStart>>

ChmodDir ==
    /\ ops < MaxOps
    /\ pc = "idle"
    /\ listable' = ~listable
    /\ ops' = ops + 1
    /\ out' = NoOut
    /\ UNCHANGED <<fs, now, store, pc, walk, pos, hashFlag, root, count,
                   result, last, prevRun, runStart>>

\* The database is a file FileIndexer::new opens as it finds it: another
\* writer of that file leaves in a row a timestamp that is out of range.
ForeignTimestamps == {MinTimestamp - 1, MaxTimestamp + 1}

CorruptRow(p, col, ts) ==
    /\ ops < MaxOps
    /\ pc = "idle"
    /\ \E r \in store : r.path = p
    /\ store' = {IF r.path = p
                 THEN IF col = "modified" THEN [r EXCEPT !.modified = ts]
                                          ELSE [r EXCEPT !.added_at = ts]
                 ELSE r : r \in store}
    /\ ops' = ops + 1
    /\ out' = NoOut
    /\ UNCHANGED <<fs, listable, now, pc, walk, pos, hashFlag, root, count,
                   result, last, prevRun, runStart>>

(***************************************************************************)
(* index_dir(root, hash): entry, one loop iteration, and the final Ok.     *)
(***************************************************************************)
IndexStart(r, w, hash) ==
    /\ pc = "idle"
    /\ ops < MaxOps
    /\ w \in WalkDir(r)
    /\ pc' = "walking"
    /\ root' = r
    /\ walk' = w
    /\ pos' = 1
    /\ hashFlag' = hash
    /\ count' = 0
    /\ ops' = ops + 1
    /\ out' = NoOut
    /\ last' = None
    /\ runStart' = store
    /\ UNCHANGED <<fs, listable, now, store, result, prevRun>>

IndexNext(nanos, dbok) ==
    /\ pc = "walking"
    /\ pos <= Len(walk)
    /\ LET b == index_dir_body(walk[pos], hashFlag, nanos, dbok)
       IN  /\ store' = b.store
           /\ count' = b.count
           /\ IF b.ctl = "return"
              THEN /\ pc' = "idle"
                   /\ result' = Err(b.err)
                   /\ pos' = pos
                   /\ prevRun' = Some(RunRecord(Err(b.err), b.store))
              ELSE /\ pc' = pc
                   /\ result' = result
                   /\ pos' = pos + 1
                   /\ prevRun' = prevRun
           /\ last' = IF IsSome(b.upserted)
                      THEN Some([rec |-> Unwrap(b.upserted),
                                 prior |-> StoredRow(store, Unwrap(b.upserted).path)])
                      ELSE last
    /\ out' = NoOut
    /\ UNCHANGED <<fs, listable, now, ops, walk, hashFlag, root, runStart>>

IndexReturn ==
    /\ pc = "walking"
    /\ pos > Len(walk)
    /\ pc' = "idle"
    /\ result' = Ok(count)
    /\ prevRun' = Some(RunRecord(Ok(count), store))
    /\ out' = NoOut
    /\ UNCHANGED <<fs, listable, now, ops, store, walk, pos, hashFlag, root,
                   count, last, runStart>>

(***************************************************************************)
(* The read operations.  The caller is the thread that runs index_dir, so  *)
(* they run between index runs, one call at a time: out holds the value    *)
(* returned until the caller goes on.                                      *)
(***************************************************************************)
Search(q) ==
    /\ pc = "idle"
    /\ out = NoOut
    /\ \E sorted \in Sorted(search_sql(q), search_params(q), store) :
          out' = [op |-> "search", q |-> q, sorted |-> sorted, res |-> search(q, sorted)]
    /\ UNCHANGED <<fs, listable, now, ops, store, pc, walk, pos, hashFlag, root,
                   count, result, last, prevRun, runStart>>

RecentlyAdded(limit) ==
    /\ pc = "idle"
    /\ out = NoOut
    /\ \E sorted \in Orderings(store, "added_at", TRUE) :
          out' = [op |-> "recent", limit |-> limit, sorted |-> sorted,
                  res |-> recently_added(limit, sorted)]
    /\ UNCHANGED <<fs, listable, now, ops, store, pc, walk, pos, hashFlag, root,
                   count, result, last, prevRun, runStart>>

DuplicateGroups(limit) ==
    /\ pc = "idle"
    /\ out = NoOut
    /\ \E groups \in GroupOrderings(store) :
          \E paths \in [1..Len(groups) -> UNION {PathOrderings(store, g.hash) : g \in GroupRows(store)}] :
             /\ \A i \in 1..Len(groups) : paths[i] \in PathOrderings(store, groups[i].hash)
             /\ out' = [op |-> "duplicates", limit |-> limit,
                        res |-> duplicate_groups(limit, groups, paths)]
    /\ UNCHANGED <<fs, listable, now, ops, store, pc, walk, pos, hashFlag, root,
                   count, result, last, prevRun, runStart>>

Next ==
    \/ Tick
    \/ \E p \in Files, c \in Written : WriteFile(p, c)
    \/ \E p \in Files : ChmodFile(p)
    \/ ChmodDir
    \/ \E r \in Roots, hash \in BOOLEAN : \E w \in WalkDir(r) : IndexStart(r, w, hash)
    \/ \E nanos \in 0..MaxNanos, dbok \in BOOLEAN : IndexNext(nanos, dbok)
    \/ IndexReturn

Spec == Init /\ [][Next]_vars

(***************************************************************************)
(* The specification of the read operations: index runs in which the       *)
(* engine accepts every statement, rewrites of one of the files between    *)
(* them, and the queries over the store they leave.                        *)
(***************************************************************************)
NextQ ==
    \/ Tick
    \/ \E c \in Written : WriteFile(F1, c)
    \/ \E r \in Roots, hash \in BOOLEAN : \E w \in WalkDir(r) : IndexStart(r, w, hash)
    \/ \E nanos \in 0..MaxNanos : IndexNext(nanos, TRUE)
    \/ IndexReturn
    \/ \E q \in Queries : Search(q)
    \/ \E limit \in Limits : RecentlyAdded(limit)
    \/ \E limit \in Limits : DuplicateGroups(limit)

SpecQ == Init /\ [][NextQ]_vars

(***************************************************************************)
(* The specification of the read operations over a database file that      *)
(* another writer has touched between the index runs.  The rows come from  *)
(* runs without hashing; the hash and the sub-second part of added_at play *)
(* no part in decoding a row.                                              *)
(***************************************************************************)
NextD ==
    \/ \E r \in Roots : \E w \in WalkDir(r) : IndexStart(r, w, FALSE)
    \/ IndexNext(0, TRUE)
    \/ IndexReturn
    \/ \E p \in Files, col \in {"modified", "added_at"}, ts \in ForeignTimestamps :
          CorruptRow(p, col, ts)
    \/ \E q \in Queries : Search(q)
    \/ \E limit \in Limits : RecentlyAdded(limit)

SpecD == Init /\ [][NextD]_vars

(***************************************************************************)
(* Helpers of the properties.                                              *)
(***************************************************************************)
Finished == pc = "idle" /\ IsSome(prevRun)
FilePaths(w) == {w[i].path : i \in {k \in 1..Len(w) : is_file(w[k])}}
FilesBefore(w, n) == Cardinality({k \in 1..(n - 1) : is_file(w[k])})
\* a step of the loop of index_dir, or its return
LoopStep == pc = "walking" /\ (pc' # pc \/ pos' # pos)
RunEnds == pc = "walking" /\ pc' = "idle"

(***************************************************************************)
(* C1: the store holds at most one row per path, in every state reached by *)
(* any sequence of index_dir runs, also those that fail part-way.          *)
(***************************************************************************)
C1_OneRowPerPath ==
    \A r1, r2 \in store : r1.path = r2.path => r1 = r2

\* a second run has upserted a path onto the row the first run stored
C1_Witness ==
    /\ Finished /\ result.ok
    /\ IsSome(last) /\ IsSome(Unwrap(last).prior)
    /\ Cardinality(store) = Cardinality(Files)

(***************************************************************************)
(* C2: an upsert onto a stored path keeps the stored added_at and takes    *)
(* name, ext, size, modified and hash from the new record; the order of    *)
(* the rows by added_at, which recently_added follows, does not change.    *)
(***************************************************************************)
C2_AddedAtPreserved ==
    [][(LoopStep /\ last' # last /\ IsSome(Unwrap(last').prior)) =>
         LET rec == Unwrap(last').rec
             old == Unwrap(Unwrap(last').prior)
         IN  /\ old \in store
             /\ \E r \in store' :
                  /\ r.path = rec.path
                  /\ r.added_at = old.added_at
                  /\ r.name = rec.name /\ r.ext = rec.ext /\ r.size = rec.size
                  /\ r.modified = timestamp(rec.modified) /\ r.hash = rec.hash
             /\ \A a, b \in store : \A a2, b2 \in store' :
                  (a2.path = a.path /\ b2.path = b.path) =>
                     ((a.added_at < b.added_at) <=> (a2.added_at < b2.added_at))
             /\ Orderings(store', "added_at", TRUE) =
                   {[i \in DOMAIN f |-> CHOOSE r \in store' : r.path = f[i].path] :
                       f \in Orderings(store, "added_at", TRUE)}
      ]_vars

\* a stored path was upserted again at a later second with another hash: the
\* row has the new hash and the old added_at
C2_Witness ==
    /\ IsSome(last) /\ IsSome(Unwrap(last).prior)
    /\ Unwrap(Unwrap(last).prior).added_at < timestamp(Unwrap(last).rec.added_at)
    /\ Unwrap(Unwrap(last).prior).hash # Unwrap(last).rec.hash
    /\ \E r \in store :
          /\ r.path = Unwrap(last).rec.path
          /\ r.added_at = Unwrap(Unwrap(last).prior).added_at
          /\ r.modified = timestamp(Unwrap(last).rec.modified)
          /\ r.hash = Unwrap(last).rec.hash

(***************************************************************************)
(* C3: a run that repeats the run before it (same root, same hash flag,    *)
(* files unchanged) returns the same count and leaves the store as the     *)
(* first run left it: the same rows with the same values, added_at too.    *)
(* The engine refusing a statement is the one way the second run can fail. *)
(***************************************************************************)
C3_ReindexIdempotent ==
    [][(RunEnds /\ Repeats) =>
         /\ result'.ok =>
               /\ result'.val = Unwrap(prevRun).res.val
               /\ Cardinality(store') = Cardinality(Unwrap(prevRun).store)
               /\ store' = Unwrap(prevRun).store
         /\ ~result'.ok => result'.err = "sqlite"
      ]_vars

\* the second of two equal runs returned Ok at a later second than the first
C3_Witness ==
    /\ Finished /\ result.ok /\ result.val > 1
    /\ Unwrap(prevRun).repeats
    /\ IsSome(last)
    /\ \E r \in store : r.added_at < timestamp(Unwrap(last).rec.added_at)

(***************************************************************************)
(* C5: the iteration of index_dir that meets a traversal error, or a file  *)
(* whose build_record or upsert fails, ends the run with an error and      *)
(* leaves the store as it is; a run that returned an error has upserted    *)
(* the files before the failing entry and none after it.                   *)
(***************************************************************************)
C5_FailsFast ==
    /\ [][(LoopStep /\ pos <= Len(walk)) =>
            LET e == walk[pos]
                bad == \/ ~EntryResult(e).ok
                       \/ is_file(e) /\ ~build_record(e.path, hashFlag, 0).ok
            IN  /\ bad => pc' = "idle"
                /\ pc' = "idle" => /\ ~result'.ok
                                   /\ store' = store
                                   /\ count' = count
                                   /\ pos' = pos
         ]_vars
    /\ [](Finished /\ ~result.ok =>
            /\ pos <= Len(walk)
            /\ count = FilesBefore(walk, pos))
    /\ [](Finished /\ result.ok => result.val = Cardinality(FilePaths(walk)))

\* a run failed on an entry that has files before it and a file after it
C5_Witness ==
    /\ Finished /\ ~result.ok
    /\ count > 0
    /\ \E k \in (pos + 1)..Len(walk) : is_file(walk[k])
    /\ \E k \in (pos + 1)..Len(walk) :
          is_file(walk[k]) /\ ~\E r \in store : r.path = walk[k].path

(***************************************************************************)
(* C6 as stated: a run over a root that holds an unreadable regular file   *)
(* returns an error, whatever the hash flag.                               *)
(***************************************************************************)
UnreadableIn(w) == {p \in FilePaths(w) : ~fs[p].readable}

C6_UnreadableAborts ==
    [][(RunEnds /\ UnreadableIn(walk) # {}) => ~result'.ok]_vars

(***************************************************************************)
(* C6 amended: with the hash flag set the run returns an error; with the   *)
(* flag unset the content is never opened: unreadability causes no error,  *)
(* and a run that returns Ok has counted and stored the unreadable file,   *)
(* with an absent hash.                                                    *)
(***************************************************************************)
C6_UnreadableAbortsWhenHashing ==
    [][(RunEnds /\ UnreadableIn(walk) # {}) =>
         /\ hashFlag => ~result'.ok
         /\ (~hashFlag /\ ~result'.ok) => result'.err \in {"traversal", "sqlite"}
         /\ (~hashFlag /\ result'.ok) =>
               /\ result'.val = Cardinality(FilePaths(walk))
               /\ \A p \in UnreadableIn(walk) :
                     \E r \in store' : r.path = p /\ r.hash = None
      ]_vars

\* a run with the flag set has failed in compute_hash on the unreadable file
C6_Witness ==
    /\ Finished /\ hashFlag /\ ~result.ok
    /\ result.err = "opening for hashing"
    /\ pos <= Len(walk) /\ is_file(walk[pos]) /\ ~fs[walk[pos].path].readable

(***************************************************************************)
(* Helpers of the properties of the read operations.                       *)
(***************************************************************************)
Searched == out.op = "search"
Rows(res) == {res.val[i] : i \in 1..Len(res.val)}
Unpaged(q) == ~IsSome(q.limit) /\ ~IsSome(q.offset)
Unfiltered(q) ==
    /\ ~IsSome(q.name_like) /\ ~IsSome(q.ext)
    /\ ~IsSome(q.min_size) /\ ~IsSome(q.max_size)
    /\ ~IsSome(q.date_from) /\ ~IsSome(q.date_to)

\* s has sub as a substring, character for character
Contains(s, sub) ==
    \E k \in 0..(Len(s) - Len(sub)) : SubSeq(s, k + 1, k + Len(sub)) = sub

StartOfDay(date) == date * SecsPerDay
EndOfDay(date) == (date + 1) * SecsPerDay - 1

\* the bounds of q that are present hold of size and modified (in seconds)
InBounds(q, size, modified) ==
    /\ IsSome(q.min_size) => Unwrap(q.min_size) <= size
    /\ IsSome(q.max_size) => size <= Unwrap(q.max_size)
    /\ IsSome(q.date_from) => modified >= StartOfDay(Unwrap(q.date_from))
    /\ IsSome(q.date_to) => modified <= EndOfDay(Unwrap(q.date_to))

ExtMatches(q, r) ==
    IsSome(q.ext) => r.ext = Some(to_ascii_lowercase(Unwrap(q.ext)))

(***************************************************************************)
(* C4 as stated: after an upsert, a search without filters and without     *)
(* limit returns a row equal, field by field, to the record upserted.      *)
(***************************************************************************)
C4_SearchReturnsRecord ==
    (Searched /\ out.res.ok /\ Unfiltered(out.q) /\ Unpaged(out.q) /\ IsSome(last)) =>
       \E row \in Rows(out.res) : row = Unwrap(last).rec

(***************************************************************************)
(* C4 amended: the row returned has the record's path, name, ext, size and *)
(* hash; its modified is the record's cut to whole seconds; its added_at   *)
(* is the record's cut to whole seconds when the path was new, and the     *)
(* added_at the store held for the path otherwise.                         *)
(***************************************************************************)
C4_SearchReturnsStoredRecord ==
    (Searched /\ out.res.ok /\ Unfiltered(out.q) /\ Unpaged(out.q) /\ IsSome(last)) =>
       LET rec == Unwrap(last).rec
           prior == Unwrap(last).prior
       IN  \E row \in Rows(out.res) :
              /\ row.path = rec.path /\ row.name = rec.name /\ row.ext = rec.ext
              /\ row.size = rec.size /\ row.hash = rec.hash
              /\ row.modified = DateTime(rec.modified.secs, 0)
              /\ row.added_at = DateTime(IF IsSome(prior) THEN Unwrap(prior).added_at
                                         ELSE rec.added_at.secs, 0)

\* the search follows an upsert onto a row stored in an earlier second, of a
\* record whose timestamps have a sub-second part
C4_Witness ==
    /\ Searched /\ out.res.ok /\ Unfiltered(out.q) /\ Unpaged(out.q) /\ IsSome(last)
    /\ IsSome(Unwrap(last).prior)
    /\ Unwrap(Unwrap(last).prior).added_at < Unwrap(last).rec.added_at.secs
    /\ Unwrap(last).rec.added_at.nanos > 0
    /\ Unwrap(last).rec.modified.nanos > 0
    /\ Len(out.res.val) = Cardinality(Files)

(***************************************************************************)
(* C7 as stated: with a name filter, search returns exactly the rows that  *)
(* pass the other filters and whose name has the filter as a substring,    *)
(* character for character (case matters, '%' and '_' are themselves).     *)
(***************************************************************************)
C7_NameFilterLiteral ==
    (Searched /\ out.res.ok /\ IsSome(out.q.name_like) /\ Unpaged(out.q)) =>
       {row.path : row \in Rows(out.res)} =
          {r.path : r \in {x \in store :
                              /\ Contains(x.name, Unwrap(out.q.name_like))
                              /\ ExtMatches(out.q, x)
                              /\ InBounds(out.q, x.size, x.modified)}}

(***************************************************************************)
(* C8: every row search returns satisfies each size and date bound that is *)
(* present, inclusively; and, absent other filters and paging, every       *)
(* stored row that satisfies the present bounds is returned (so a row on   *)
(* a bound is returned and an absent bound excludes nothing).              *)
(***************************************************************************)
C8_BoundsInclusive ==
    (Searched /\ out.res.ok) =>
       /\ \A row \in Rows(out.res) : InBounds(out.q, row.size, row.modified.secs)
       /\ (Unpaged(out.q) /\ ~IsSome(out.q.name_like) /\ ~IsSome(out.q.ext)) =>
             \A r \in store :
                InBounds(out.q, r.size, r.modified) =>
                   \E row \in Rows(out.res) : row.path = r.path

\* a search with all four bounds returned a row that sits on the lower size
\* bound and on 00:00:00 of the from date, another search one that sits on
\* 23:59:59 of the to date and on the lower size bound
C8_Witness ==
    /\ Searched /\ out.res.ok
    /\ IsSome(out.q.min_size) /\ IsSome(out.q.date_from) /\ IsSome(out.q.date_to)
    /\ \E row \in Rows(out.res) :
          /\ row.size = Unwrap(out.q.min_size)
          /\ \/ /\ IsSome(out.q.max_size)
                /\ row.size = Unwrap(out.q.max_size)
                /\ row.modified.secs = StartOfDay(Unwrap(out.q.date_from))
             \/ row.modified.secs = EndOfDay(Unwrap(out.q.date_to))
    /\ \E r \in store : ~InBounds(out.q, r.size, r.modified)

(***************************************************************************)
(* C9 as stated: whatever of limit and offset is present, search succeeds  *)
(* and returns positions [offset, offset + limit) of the filtered, sorted  *)
(* sequence, an absent offset being 0 and an absent limit no bound.        *)
(***************************************************************************)
C9_LimitOffsetIndependent ==
    Searched =>
       /\ out.res.ok
       /\ LET off == IF IsSome(out.q.offset) THEN Unwrap(out.q.offset) ELSE 0
              n == Len(out.sorted)
              hi == IF IsSome(out.q.limit) /\ off + Unwrap(out.q.limit) < n
                    THEN off + Unwrap(out.q.limit) ELSE n
          IN  [i \in 1..Len(out.res.val) |-> out.res.val[i].path]
                 = [i \in 1..(IF hi > off THEN hi - off ELSE 0) |-> out.sorted[off + i].path]

(***************************************************************************)
(* C10 as stated: the paths of a group duplicate_groups returns are        *)
(* distinct, each belongs to a stored row that has the group's hash and    *)
(* the group's size, and they are as many as the group's count.            *)
(***************************************************************************)
C10_GroupSharesHashAndSize ==
    (out.op = "duplicates" /\ out.res.ok) =>
       \A i \in 1..Len(out.res.val) :
          LET g == out.res.val[i]
          IN  /\ Len(g.paths) = g.count
              /\ \A j, k \in 1..Len(g.paths) : j # k => g.paths[j] # g.paths[k]
              /\ \A j \in 1..Len(g.paths) :
                    \E r \in store : /\ r.path = g.paths[j]
                                     /\ r.hash = Some(g.hash)
                                     /\ r.size = g.size

(***************************************************************************)
(* C11 as stated: duplicate_groups(limit) succeeds and returns at most     *)
(* limit groups, as many as there are (hash, size) classes of more than    *)
(* one hashed row up to the limit, by descending count; each group has a   *)
(* count above 1 and its paths come ordered by name; a stored row whose    *)
(* hash is absent, or whose (hash, size) no other row shares, has its path *)
(* in no group.                                                            *)
(***************************************************************************)
SharesHashAndSize(r) ==
    IsSome(r.hash) /\ \E x \in store : x.path # r.path /\ x.hash = r.hash /\ x.size = r.size
NameOfPath(p) == (CHOOSE r \in store : r.path = p).name

C11_OnlySharedRecordsGrouped ==
    out.op = "duplicates" =>
       /\ out.res.ok
       /\ LET gs == out.res.val
              classes == {<<r.hash, r.size>> : r \in {x \in store : SharesHashAndSize(x)}}
          IN  /\ Len(gs) = IF Cardinality(classes) < out.limit
                           THEN Cardinality(classes) ELSE out.limit
              /\ \A i \in 1..Len(gs) : gs[i].count > 1
              /\ \A i, j \in 1..Len(gs) : i < j => gs[i].count >= gs[j].count
              /\ \A i \in 1..Len(gs) : \A j, k \in 1..Len(gs[i].paths) :
                    j < k => ~StrLess(NameOfPath(gs[i].paths[k]), NameOfPath(gs[i].paths[j]))
              /\ \A r \in store :
                    ~SharesHashAndSize(r) =>
                       \A i \in 1..Len(gs) : \A j \in 1..Len(gs[i].paths) :
                          gs[i].paths[j] # r.path

(***************************************************************************)
(* C12 as stated: the statement search prepares depends only on which      *)
(* fields of the query are present, on the sort key and on the direction:  *)
(* a query that agrees with the one searched on these and differs in the   *)
(* values supplied has the same statement text.                            *)
(***************************************************************************)
SameShape(q1, q2) ==
    /\ IsSome(q1.name_like) = IsSome(q2.name_like)
    /\ IsSome(q1.ext) = IsSome(q2.ext)
    /\ IsSome(q1.min_size) = IsSome(q2.min_size)
    /\ IsSome(q1.max_size) = IsSome(q2.max_size)
    /\ IsSome(q1.date_from) = IsSome(q2.date_from)
    /\ IsSome(q1.date_to) = IsSome(q2.date_to)
    /\ IsSome(q1.limit) = IsSome(q2.limit)
    /\ IsSome(q1.offset) = IsSome(q2.offset)
    /\ q1.sort_key = q2.sort_key
    /\ q1.desc = q2.desc

C12_ValuesNeverInSqlText ==
    Searched =>
       \A q2 \in Queries : SameShape(out.q, q2) => search_sql(q2) = search_sql(out.q)

(***************************************************************************)
(* C13: a row whose modified or added_at is outside the decodable range    *)
(* makes neither search nor recently_added fail.  Of the rows the          *)
(* statement yields (the filtered, sorted rows, cut to offset and limit)   *)
(* the call returns the decodable ones, in the statement's order and with  *)
(* their stored values, and leaves out the undecodable ones only.  (A      *)
(* search with an offset and without a limit fails in prepare, whatever    *)
(* the rows are; it is left aside.)                                        *)
(***************************************************************************)
Decodable(r) ==
    /\ r.modified >= MinTimestamp /\ r.modified <= MaxTimestamp
    /\ r.added_at >= MinTimestamp /\ r.added_at <= MaxTimestamp

\* the rows the statement of the last call yielded
Yielded ==
    IF out.op = "search" THEN Page(out.sorted, out.q.limit, out.q.offset)
    ELSE Page(out.sorted, Some(out.limit), None)

Prepared ==
    \/ out.op = "recent"
    \/ out.op = "search" /\ (IsSome(out.q.offset) => IsSome(out.q.limit))

C13_UndecodableRowsDropped ==
    Prepared =>
       /\ out.res.ok
       /\ LET keep == {i \in 1..Len(Yielded) : Decodable(Yielded[i])}
              nth(k) == CHOOSE i \in keep : Cardinality({j \in keep : j < i}) = k - 1
          IN  /\ Len(out.res.val) = Cardinality(keep)
              /\ \A k \in 1..Len(out.res.val) :
                    LET row == out.res.val[k]
                        r == Yielded[nth(k)]
                    IN  /\ row.path = r.path /\ row.name = r.name /\ row.ext = r.ext
                        /\ row.size = r.size /\ row.hash = r.hash
                        /\ row.modified = DateTime(r.modified, 0)
                        /\ row.added_at = DateTime(r.added_at, 0)

\* a search whose statement yielded an undecodable row between two decodable
\* ones returned the two
C13_Witness ==
    /\ out.op = "search" /\ out.res.ok
    /\ Len(Yielded) = 3 /\ Len(out.res.val) = 2
    /\ Decodable(Yielded[1]) /\ ~Decodable(Yielded[2]) /\ Decodable(Yielded[3])

(***************************************************************************)
(* C14: the iteration of index_dir that processes a file leaves its row    *)
(* with the fingerprint of the file's content when the run's hash flag is  *)
(* set and with an absent hash when it is not, whatever hash the row held. *)
(* So after a run without hashing has returned Ok every file under its     *)
(* root has an absent hash, and duplicate_groups lists none of them.       *)
(***************************************************************************)
C14_HashFollowsLatestRun ==
    /\ [][(LoopStep /\ pos' = pos + 1 /\ is_file(walk[pos])) =>
            \E r \in store' :
               /\ r.path = walk[pos].path
               /\ r.hash = IF hashFlag THEN Some(DigestOf(fs[r.path].content)) ELSE None
         ]_vars
    /\ []((Finished /\ result.ok /\ ~hashFlag) =>
            /\ \A p \in FilePaths(walk) : \E r \in store : r.path = p /\ r.hash = None
            /\ out.op = "duplicates" =>
                  /\ out.res.ok
                  /\ \A i \in 1..Len(out.res.val) : \A j \in 1..Len(out.res.val[i].paths) :
                        out.res.val[i].paths[j] \notin FilePaths(walk))

\* duplicate_groups was called after a run without hashing over the whole
\* tree, whose last upsert replaced the fingerprint an earlier run had stored
\* for the same, unchanged file: no group is left
C14_Witness ==
    /\ Finished /\ result.ok /\ ~hashFlag /\ root = DirD
    /\ Cardinality(store) = Cardinality(Files)
    /\ IsSome(last) /\ IsSome(Unwrap(last).prior)
    /\ Unwrap(Unwrap(last).prior).hash = Some(DigestOf(fs[Unwrap(last).rec.path].content))
    /\ Unwrap(Unwrap(last).prior).size = Unwrap(last).rec.size
    /\ Unwrap(Unwrap(last).prior).modified = timestamp(Unwrap(last).rec.modified)
    /\ \A r \in store : r.hash = None
    /\ out.op = "duplicates" /\ out.res = Ok(<<>>)

(***************************************************************************)
(* C15: at every point of a run, the point where it fails or is            *)
(* interrupted included, the store holds one row for each file the run     *)
(* has upserted so far, with the values of that upsert, next to the rows   *)
(* the run found, of which those of other paths are untouched; nothing is  *)
(* taken back when the run returns an error.  A run made again from the    *)
(* beginning over the same root after a run that returned an error, once   *)
(* it returns Ok, leaves exactly one row per regular file under the root   *)
(* plus the rows of other paths the store held before the failed run.      *)
(***************************************************************************)
PathsOf(rows) == {r.path : r \in rows}
Processed == {walk[k].path : k \in {i \in 1..(pos - 1) : i <= Len(walk) /\ is_file(walk[i])}}

C15_PartialRunKeptRerunSafe ==
    /\ [](/\ PathsOf(store) = PathsOf(runStart) \cup Processed
          /\ Cardinality(store) = Cardinality(PathsOf(store))
          /\ \A r \in runStart : r.path \notin Processed => r \in store
          /\ (Finished /\ ~result.ok) => count = Cardinality(Processed))
    /\ [][(LoopStep /\ pos' = pos + 1 /\ is_file(walk[pos])) =>
            /\ IsSome(last') /\ Unwrap(last').rec.path = walk[pos].path
            /\ upsert(store, Unwrap(last').rec) = store'
            /\ \E r \in store' :
                  /\ r.path = walk[pos].path
                  /\ r.size = LenOf(fs[r.path].content)
                  /\ r.modified = fs[r.path].mtime.secs
         ]_vars
    /\ [][(RunEnds /\ ~result'.ok) => store' = store]_vars
    /\ [][(RunEnds /\ result'.ok /\ Retries) =>
            /\ PathsOf(store') = FilePaths(walk) \cup PathsOf(Unwrap(prevRun).before)
            /\ Cardinality(store') = Cardinality(PathsOf(store'))
            /\ \A r \in Unwrap(prevRun).before : r.path \notin FilePaths(walk) => r \in store'
         ]_vars

\* a run over the whole tree, made after one over it that returned an error
\* and on a store that held the rows a failed run had upserted before it
\* failed, has returned Ok
C15_Witness ==
    /\ Finished /\ result.ok /\ root = DirD
    /\ Unwrap(prevRun).retries
    /\ Cardinality(store) = Cardinality(Files)
    /\ Cardinality(runStart) > 1 /\ Cardinality(runStart) < Cardinality(store)

====
